---- MODULE Spec2Model ----
(***************************************************************************)
(* Schema registry, reference resolver and validation engine of            *)
(* Wemble/schema (src/src/SchemaManager.ts, src/Validator.ts:131-434).     *)
(*                                                                         *)
(* Schema objects live in a heap and are addressed by object id, so that  *)
(* the JavaScript object identity the code relies on (shared nested       *)
(* links, in-place resolution) is explicit.                               *)
(***************************************************************************)
EXTENDS Integers, Sequences, FiniteSets, TLC

VARIABLES heap, registry, customTypes, typeValidator, metaValidator,
          whitelistedKeys, nextId, last

vars == <<heap, registry, customTypes, typeValidator, metaValidator,
          whitelistedKeys, nextId, last>>

(***************************************************************************)
(* Bounds of the model.                                                    *)
(***************************************************************************)
MaxObj == 2
MaxGen == 2
MaxTypes == 1
MaxObjV == 2
MaxObjN == 3
MaxObjW == 1
MaxObjM == 2
MaxObjA == 2
MaxObjD == 2
MaxObjS == 2
MaxObjT == 3
MaxObjQ == 2
MaxObjO == 1
MaxObjC == 3
MaxWhite == 1

(***************************************************************************)
(* Names.  A schema name is a string; a generated name is a shortid, and   *)
(* a de-duplicated name is  base + '_' + shortid.  base is the literal     *)
(* part, id the shortid a purely generated name consists of, sfx the       *)
(* shortid appended after '_'.  Shortids are drawn fresh from nextId.      *)
(***************************************************************************)
NoName == [base |-> "", id |-> 0, sfx |-> 0]
Named(s) == [base |-> s, id |-> 0, sfx |-> 0]

(***************************************************************************)
(* SchemaType values as they sit in ISchemaObject.type: a constructor      *)
(* function (typeof 'function', with its .name), a string, another schema  *)
(* object (typeof 'object'), or undefined.                                 *)
(***************************************************************************)
TFn(s) == [k |-> "fn", s |-> s, o |-> 0]
TStr(s) == [k |-> "str", s |-> s, o |-> 0]
TObj(o) == [k |-> "obj", s |-> "", o |-> o]
TUndef == [k |-> "undef", s |-> "", o |-> 0]

PRIMITIVES == <<"String", "Boolean", "Number">>
TYPE_ANY == "Any"

SeqHas(seq, x) == \E i \in 1..Len(seq) : seq[i] = x

(***************************************************************************)
(* JavaScript values (declarations, metadata, model data).  One record     *)
(* shape for all of them: t is the kind, n the number (or 0/1 for a        *)
(* boolean), s the string (or the name of a function), kv the own          *)
(* enumerable properties in Object.keys order (index keys for an array).   *)
(***************************************************************************)
VUndef == [t |-> "undef", n |-> 0, s |-> "", kv |-> <<>>]
VBool(b) == [t |-> "bool", n |-> IF b THEN 1 ELSE 0, s |-> "", kv |-> <<>>]
VNum(n) == [t |-> "num", n |-> n, s |-> "", kv |-> <<>>]
VStr(s) == [t |-> "str", n |-> 0, s |-> s, kv |-> <<>>]
VFn(s) == [t |-> "fn", n |-> 0, s |-> s, kv |-> <<>>]
VObj(kv) == [t |-> "obj", n |-> 0, s |-> "", kv |-> kv]
VArr(kv) == [t |-> "arr", n |-> 0, s |-> "", kv |-> kv]
P(k, v) == [k |-> k, v |-> v]

IsArray(v) == v.t = "arr"
\* typeof v
TypeOf(v) ==
    CASE v.t = "undef" -> "undefined"
      [] v.t = "bool" -> "boolean"
      [] v.t = "num" -> "number"
      [] v.t = "str" -> "string"
      [] v.t = "fn" -> "function"
      [] OTHER -> "object"
\* truthiness of v
Truthy(v) ==
    CASE v.t = "undef" -> FALSE
      [] v.t = "bool" -> v.n = 1
      [] v.t = "num" -> v.n # 0
      [] v.t = "str" -> v.s # ""
      [] OTHER -> TRUE
\* Object.keys(v); the strings used as data have at most one character
ObjectKeys(v) ==
    CASE v.t \in {"obj", "arr"} -> [i \in 1..Len(v.kv) |-> v.kv[i].k]
      [] v.t = "str" /\ v.s # "" -> <<"0">>
      [] OTHER -> <<>>
\* v.hasOwnProperty(key), for the keys the model uses (never 'length')
HasOwn(v, key) ==
    CASE v.t \in {"obj", "arr"} -> \E i \in 1..Len(v.kv) : v.kv[i].k = key
      [] v.t = "str" -> v.s # "" /\ key = "0"
      [] OTHER -> FALSE
\* v[key]; the character of a one-character string is the string itself
Prop(v, key) ==
    CASE v.t \in {"obj", "arr"} ->
           IF \E i \in 1..Len(v.kv) : v.kv[i].k = key
           THEN v.kv[CHOOSE i \in 1..Len(v.kv) : v.kv[i].k = key].v
           ELSE VUndef
      [] v.t = "str" /\ v.s # "" /\ key = "0" -> v
      [] v.t = "fn" /\ key = "name" -> VStr(v.s)
      [] OTHER -> VUndef

(***************************************************************************)
(* ISchemaObject.  single is _singleType; for a single-type schema type   *)
(* is the sole SchemaType and fields is empty, for a map schema fields is  *)
(* the key -> SchemaType mapping in insertion (Object.keys) order.         *)
(* resolved is  _resolved !== false.  isArray, uniqueKey and metaData are  *)
(* JavaScript values (undefined when the property is not set).             *)
(***************************************************************************)
Schema(name, single, type, fields, isArray, uniqueKey, metaData, resolved) ==
    [name |-> name, single |-> single, type |-> type, fields |-> fields,
     isArray |-> isArray, uniqueKey |-> uniqueKey, metaData |-> metaData,
     resolved |-> resolved]

Fld(key, ty) == [key |-> key, ty |-> ty]

HasField(s, key) == \E i \in 1..Len(s.fields) : s.fields[i].key = key
FieldIdx(s, key) == CHOOSE i \in 1..Len(s.fields) : s.fields[i].key = key
FieldTy(s, key) == IF HasField(s, key) THEN s.fields[FieldIdx(s, key)].ty ELSE TUndef

isSchemaResolved(s) == s.resolved

(***************************************************************************)
(* The registry: an object used as an insertion-ordered map name -> schema *)
(***************************************************************************)
RegHas(reg, n) == \E i \in 1..Len(reg) : reg[i].name = n
RegGet(reg, n) == reg[CHOOSE i \in 1..Len(reg) : reg[i].name = n].oid
RegPut(reg, n, o) ==
    IF RegHas(reg, n)
    THEN [i \in 1..Len(reg) |-> IF reg[i].name = n THEN [name |-> n, oid |-> o] ELSE reg[i]]
    ELSE Append(reg, [name |-> n, oid |-> o])
RegNames(reg) == {reg[i].name : i \in 1..Len(reg)}
RegOids(reg) == {reg[i].oid : i \in 1..Len(reg)}

hasSchema(n) == RegHas(registry, n)

(***************************************************************************)
(* generateSchemaName                                                      *)
(***************************************************************************)
Suffixed(name, id) == [base |-> name.base, id |-> name.id, sfx |-> id]
ShortId(id) == [base |-> "", id |-> id, sfx |-> 0]

GenOut(err, name, nid) == [err |-> err, name |-> name, nextId |-> nid]

\* variant: a taken name is handed out again as it is
generateSchemaNameTaken(reg, nid, name, ignoreDuplicate) == GenOut("", name, nid)

generateSchemaNameNamed(reg, nid, name, ignoreDuplicate) ==
    IF RegHas(reg, name)
    THEN IF ~ignoreDuplicate
         THEN GenOut("DuplicateSchemaName", NoName, nid)
         ELSE GenOut("", Suffixed(name, nid), nid + 1)
    ELSE GenOut("", name, nid)

generateSchemaName(reg, nid, name, nameHint, ignoreDuplicate) ==
    IF name # NoName
    THEN generateSchemaNameNamed(reg, nid, name, ignoreDuplicate)
    ELSE IF nameHint # ""
         THEN generateSchemaNameNamed(reg, nid, Named(nameHint), ignoreDuplicate)
         ELSE GenOut("", ShortId(nid), nid + 1)

(***************************************************************************)
(* _registerSchema, threaded over a machine record                         *)
(*   M = [heap, reg, nextId, err, ret]                                     *)
(* err # "" is a thrown Error: it stops the walk and leaves in M what was  *)
(* already written.                                                        *)
(***************************************************************************)
Mach(h, r, n) == [heap |-> h, reg |-> r, nextId |-> n, err |-> "", ret |-> 0]

\* variant: the string branch never clears the resolved flag
MarkUnresolvedNever(M, o, ty) == M

MarkUnresolvedIfNotCustom(M, o, ty) ==
    IF ~SeqHas(customTypes, ty.s)
    THEN [M EXCEPT !.heap[o].resolved = FALSE]
    ELSE M

RECURSIVE _registerSchema(_, _, _, _)
RECURSIVE registerFields(_, _, _)

registerFields(M, o, i) ==
    IF M.err # "" \/ i > Len(M.heap[o].fields) THEN M
    ELSE LET ty == M.heap[o].fields[i].ty IN
         IF ty.k = "obj"
         THEN registerFields(_registerSchema(M, ty.o, "", TRUE), o, i + 1)
         ELSE IF ty.k = "str"
         THEN registerFields(MarkUnresolvedIfNotCustom(M, o, ty), o, i + 1)
         ELSE IF ty.k = "undef"
         THEN [M EXCEPT !.err = "UndefinedType"]
         ELSE registerFields(M, o, i + 1)

EarlyReturnExisting(M, o, ignoreDuplicate) ==
    ignoreDuplicate /\ RegHas(M.reg, M.heap[o].name)

_registerSchema(M, o, nameHint, ignoreDuplicate) ==
    LET s == M.heap[o] IN
    IF EarlyReturnExisting(M, o, ignoreDuplicate)
    THEN [M EXCEPT !.ret = RegGet(M.reg, s.name)]
    ELSE LET g == generateSchemaName(M.reg, M.nextId, s.name, nameHint, ignoreDuplicate) IN
         IF g.err # "" THEN [M EXCEPT !.err = g.err]
         ELSE LET M1 == [M EXCEPT !.heap[o].name = g.name,
                                  !.reg = RegPut(@, g.name, o),
                                  !.nextId = g.nextId]
                  M2 == IF s.single
                        THEN IF s.type.k = "obj"
                             THEN _registerSchema(M1, s.type.o, "", TRUE)
                             ELSE IF s.type.k = "str"
                             THEN MarkUnresolvedIfNotCustom(M1, o, s.type)
                             ELSE M1
                        ELSE registerFields(M1, o, 1)
              IN IF M2.err # "" THEN M2 ELSE [M2 EXCEPT !.ret = o]

(***************************************************************************)
(* resolveSchema / resolveAll                                              *)
(***************************************************************************)
\* what one type entry becomes, and whether it counts as resolved
\* variant: a matching name string is counted as resolved but left in place
ResolvedEntryKeepsName(reg, ty) == ty

ResolvedEntry(reg, ty) ==
    IF ty.k = "str" /\ RegHas(reg, Named(ty.s)) THEN TObj(RegGet(reg, Named(ty.s)))
    ELSE ty

\* variant: the name of a custom type does not count as resolved
EntryIsResolvedNoCustom(reg, ty) ==
    \/ ty.k = "str" /\ RegHas(reg, Named(ty.s))
    \/ ty.k = "obj"
    \/ ty.k = "fn"

EntryIsResolved(reg, ty) ==
    \/ ty.k = "str" /\ RegHas(reg, Named(ty.s))
    \/ ty.k = "str" /\ SeqHas(customTypes, ty.s)
    \/ ty.k = "obj"
    \/ ty.k = "fn"

\* variant: a schema already flagged resolved is computed again
resolveSchemaRecompute(h, reg, o) ==
    LET s == h[o] IN
    IF s.single
    THEN [h EXCEPT ![o].type = ResolvedEntry(reg, s.type),
                   ![o].resolved = EntryIsResolved(reg, s.type)]
    ELSE [h EXCEPT ![o].fields = [i \in 1..Len(s.fields) |->
                                     Fld(s.fields[i].key, ResolvedEntry(reg, s.fields[i].ty))],
                   ![o].resolved = \A i \in 1..Len(s.fields) :
                                       EntryIsResolved(reg, s.fields[i].ty)]

resolveSchema(h, reg, o) ==
    LET s == h[o] IN
    IF isSchemaResolved(s) THEN h
    ELSE IF s.single
    THEN [h EXCEPT ![o].type = ResolvedEntry(reg, s.type),
                   ![o].resolved = EntryIsResolved(reg, s.type)]
    ELSE [h EXCEPT ![o].fields = [i \in 1..Len(s.fields) |->
                                     Fld(s.fields[i].key, ResolvedEntry(reg, s.fields[i].ty))],
                   ![o].resolved = \A i \in 1..Len(s.fields) :
                                       EntryIsResolved(reg, s.fields[i].ty)]

\* variant: the loop gives up at the first schema it cannot resolve
RECURSIVE resolveAllStopAtFirst(_, _, _)
resolveAllStopAtFirst(R, reg, i) ==
    IF i > Len(reg) THEN R
    ELSE LET o == reg[i].oid IN
         IF ~isSchemaResolved(R.heap[o])
         THEN LET h2 == resolveSchema(R.heap, reg, o) IN
              IF ~h2[o].resolved
              THEN [heap |-> h2, unresolvable |-> Append(R.unresolvable, reg[i].name)]
              ELSE resolveAllStopAtFirst([heap |-> h2, unresolvable |-> R.unresolvable],
                                         reg, i + 1)
         ELSE resolveAllStopAtFirst(R, reg, i + 1)

\* the forEach of resolveAll from registry position i; R = [heap, unresolvable]
RECURSIVE resolveAllFrom(_, _, _)
resolveAllFrom(R, reg, i) ==
    IF i > Len(reg) THEN R
    ELSE LET o == reg[i].oid IN
         IF ~isSchemaResolved(R.heap[o])
         THEN LET h2 == resolveSchema(R.heap, reg, o) IN
              resolveAllFrom([heap |-> h2,
                              unresolvable |-> IF ~h2[o].resolved
                                               THEN Append(R.unresolvable, reg[i].name)
                                               ELSE R.unresolvable],
                             reg, i + 1)
         ELSE resolveAllFrom(R, reg, i + 1)

resolveAll(h, reg) == resolveAllFrom([heap |-> h, unresolvable |-> <<>>], reg, 1)

(***************************************************************************)
(* schemaFromJson / handleType.  Both return a machine record; ret is the  *)
(* id of the schema object built.  A nested declaration allocates its own  *)
(* schema object; nothing is registered here.                              *)
(***************************************************************************)
\* classification of a type-name string (handleType, both branches)
ClassifyString(reg, val) ==
    IF SeqHas(PRIMITIVES, val) THEN [ty |-> TFn(val), unresolved |-> FALSE]
    ELSE IF SeqHas(customTypes, val) THEN [ty |-> TStr(val), unresolved |-> FALSE]
    ELSE IF RegHas(reg, Named(val)) THEN [ty |-> TObj(RegGet(reg, Named(val))), unresolved |-> FALSE]
    ELSE [ty |-> TStr(val), unresolved |-> TRUE]

\* the name property read off a declaration
DeclName(obj) ==
    LET n == Prop(obj, "name") IN
    IF n.t = "str" /\ n.s # "" THEN Named(n.s) ELSE NoName

Alloc(M, s) == [M EXCEPT !.heap = Append(@, s), !.ret = Len(M.heap) + 1]

RECURSIVE schemaFromJson(_, _)
RECURSIVE handleTypeKeys(_, _, _, _)

\* the Object.keys(type).forEach of handleType from position i;
\* H = [M, fields, unresolved]
handleTypeKeys(H, type, keys, i) ==
    IF H.M.err # "" \/ i > Len(keys) THEN H
    ELSE LET key == keys[i]
             val == Prop(type, key)
         IN
         IF TypeOf(val) = "string"
         THEN LET c == ClassifyString(H.M.reg, val.s) IN
              handleTypeKeys([H EXCEPT !.fields = Append(@, Fld(key, c.ty)),
                                       !.unresolved = @ \/ c.unresolved],
                             type, keys, i + 1)
         ELSE IF TypeOf(val) = "object"
         THEN LET M2 == schemaFromJson(H.M, val) IN
              handleTypeKeys([H EXCEPT !.M = M2,
                                       !.fields = Append(@, Fld(key, TObj(M2.ret)))],
                             type, keys, i + 1)
         ELSE IF TypeOf(val) = "function"
         THEN handleTypeKeys([H EXCEPT !.fields = Append(@, Fld(key, TFn(val.s)))],
                             type, keys, i + 1)
         ELSE [H EXCEPT !.M.err = "InvalidTypeDeclaration"]

\* handleType: [M, single, type, fields, unresolved]
handleType(M, type) ==
    IF TypeOf(type) = "string"
    THEN LET c == ClassifyString(M.reg, type.s) IN
         [M |-> M, single |-> TRUE, type |-> c.ty, fields |-> <<>>,
          unresolved |-> c.unresolved]
    ELSE IF TypeOf(type) = "function"
    THEN [M |-> M, single |-> TRUE, type |-> TFn(type.s), fields |-> <<>>,
          unresolved |-> FALSE]
    ELSE IF TypeOf(type) = "undefined"
    THEN [M |-> [M EXCEPT !.err = "TypeError"], single |-> FALSE, type |-> TUndef,
          fields |-> <<>>, unresolved |-> FALSE]
    ELSE LET H == handleTypeKeys([M |-> M, fields |-> <<>>, unresolved |-> FALSE],
                                 type, ObjectKeys(type), 1)
         IN [M |-> H.M, single |-> FALSE, type |-> TUndef, fields |-> H.fields,
             unresolved |-> H.unresolved]

schemaFromJson(M, decl) ==
    LET name == DeclName(decl)
        arr == IsArray(decl)
        obj == IF arr THEN Prop(decl, "0") ELSE decl
        isArr0 == IF arr THEN VBool(TRUE) ELSE VUndef
    IN
    IF TypeOf(decl) = "undefined" THEN [M EXCEPT !.err = "TypeError"]
    ELSE IF arr /\ Len(decl.kv) # 1 THEN [M EXCEPT !.err = "InvalidArrayShorthand"]
    ELSE IF TypeOf(obj) = "object"
    THEN LET isArr == IF TypeOf(Prop(obj, "isArray")) # "undefined"
                      THEN Prop(obj, "isArray") ELSE isArr0
             bare == Schema(name, FALSE, TUndef, <<>>, isArr, Prop(obj, "uniqueKey"),
                            Prop(obj, "metaData"), TRUE)
             type == Prop(obj, "type")
         IN
         IF TypeOf(type) = "undefined" THEN Alloc(M, bare)
         ELSE IF IsArray(type)
         THEN IF Prop(obj, "isArray") = VBool(FALSE)
              THEN [M EXCEPT !.err = "InvalidTypeDeclaration"]
              ELSE schemaFromJson(M, type)
         ELSE LET T == handleType(M, type) IN
              IF T.M.err # "" THEN T.M
              ELSE Alloc(T.M, [bare EXCEPT !.single = T.single, !.type = T.type,
                                           !.fields = T.fields,
                                           !.resolved = ~T.unresolved])
    ELSE LET T == handleType(M, obj) IN
         IF T.M.err # "" THEN T.M
         ELSE Alloc(T.M, Schema(name, T.single, T.type, T.fields, isArr0, VUndef,
                                VUndef, ~T.unresolved))

(***************************************************************************)
(* Validator.  A validation result summarises the Observable returned:     *)
(* err is the error it terminates with ("" when it completes), at the      *)
(* schema name the message is qualified with, ok whether every boolean it  *)
(* emitted is true, sync whether the error is a JavaScript exception       *)
(* thrown out of the call instead of an error notification.                *)
(***************************************************************************)
VR(err, at, ok, sync) == [err |-> err, at |-> at, ok |-> ok, sync |-> sync]
Emit(b) == VR("", NoName, b, FALSE)
Fail(kind, at) == VR(kind, at, TRUE, FALSE)
Throw(kind, at) == VR(kind, at, TRUE, TRUE)
Passes(r) == r.err = "" /\ r.ok

\* an exception thrown inside a flatMap projection becomes an error notification
Caught(r) == [r EXCEPT !.sync = FALSE]
\* a.concat(b) for synchronous sources: b is not started once a has failed
Then(a, b) == IF a.err # "" THEN a ELSE [b EXCEPT !.ok = a.ok /\ b.ok]
\* r.every(b => b): the first false completes the stream
Every(r) == IF ~r.ok THEN Emit(FALSE) ELSE r

\* the custom-type predicates that get registered
\* variant: every registered predicate answers true
ApplyTypeValidatorAccepts(p, value, meta) == TRUE

ApplyTypeValidator(p, value, meta) ==
    CASE p = "isString" -> TypeOf(value) = "string"
      [] p = "isBoolean" -> TypeOf(value) = "boolean"
      [] p = "isNumber" -> TypeOf(value) = "number"
      [] p = "isOne" -> value = VStr("1")
      [] OTHER -> TRUE

\* the metadata validators that get registered: a minimum that raises, and
\* a minimum that answers false
ApplyMetaValidator(f, metaValue, value, at) ==
    LET geq == value.t = "num" /\ metaValue.t = "num" /\ value.n >= metaValue.n IN
    CASE f = "minThrow" -> IF geq THEN Emit(TRUE) ELSE Fail("MetaDataInvalid", at)
      [] OTHER -> Emit(geq)

TVHas(n) == n.id = 0 /\ n.sfx = 0 /\ n.base \in DOMAIN typeValidator

isKeyRequired(s, key) ==
    /\ Truthy(s.metaData)
    /\ HasOwn(s.metaData, key)
    /\ Truthy(Prop(Prop(s.metaData, key), "required"))

\* the name a SchemaType entry is dispatched on (getSchemaKeyType[Single])
TypeName(ty) ==
    CASE ty.k = "fn" -> Named(ty.s)
      [] ty.k = "str" -> Named(ty.s)
      [] ty.k = "obj" -> heap[ty.o].name
      [] OTHER -> NoName

\* variant: the metadata of a key is never looked at
metaDataIgnored(keyData, keyArray, i, value, at) == Emit(TRUE)

RECURSIVE metaDataFrom(_, _, _, _, _)
metaDataFrom(keyData, keyArray, i, value, at) ==
    IF i > Len(keyArray) THEN Emit(TRUE)
    ELSE LET metaKey == keyArray[i] IN
         IF metaKey \notin DOMAIN metaValidator
         THEN metaDataFrom(keyData, keyArray, i + 1, value, at)
         ELSE LET r == ApplyMetaValidator(metaValidator[metaKey],
                                          Prop(keyData, metaKey), value, at) IN
              IF r.err # "" \/ ~r.ok THEN r
              ELSE metaDataFrom(keyData, keyArray, i + 1, value, at)

\* validateMetaData; hasKey = FALSE is the call with key === null
validateMetaData(s, hasKey, key, value) ==
    LET metaData == s.metaData
        keyData == IF hasKey THEN Prop(metaData, key) ELSE metaData
    IN
    IF ~Truthy(metaData) THEN Emit(TRUE)
    ELSE IF hasKey /\ ~Truthy(keyData) THEN Emit(TRUE)
    ELSE IF Len(ObjectKeys(keyData)) = 0 THEN Emit(TRUE)
    ELSE metaDataFrom(keyData, ObjectKeys(keyData), 1, value, s.name)

RECURSIVE validateModelF(_, _, _, _)
RECURSIVE validateArrayFrom(_, _, _, _, _)
RECURSIVE validateItem(_, _, _, _)
RECURSIVE validateKeysFrom(_, _, _, _, _, _)
RECURSIVE validateValue(_, _, _, _, _)
RECURSIVE validateValueSingle(_, _, _, _)

\* validateModel; fuel bounds the call depth (a cycle of single-type schemas
\* recurses on the same data until the stack overflows)
validateModelF(schemaName, modelData, full, fuel) ==
    IF fuel = 0 THEN Throw("RangeError", schemaName)
    ELSE IF ~RegHas(registry, schemaName) THEN Throw("TypeError", NoName)
    ELSE LET o == RegGet(registry, schemaName)
             schema == heap[o]
         IN
         IF ~isSchemaResolved(schema) THEN Fail("UnresolvedSchema", schemaName)
         ELSE IF Truthy(schema.isArray) /\ IsArray(modelData)
         THEN validateArrayFrom(o, modelData, 1, full, fuel)
         ELSE IF Truthy(schema.isArray) /\ ~IsArray(modelData)
         THEN Fail("ArrayShapeMismatch", schemaName)
         ELSE IF ~Truthy(schema.isArray) /\ IsArray(modelData)
         THEN Fail("ArrayShapeMismatch", schemaName)
         ELSE validateItem(o, modelData, full, fuel)

\* validateArray: the elements from position i on
validateArrayFrom(o, modelData, i, full, fuel) ==
    IF Len(modelData.kv) = 0 THEN Emit(TRUE)
    ELSE IF i > Len(modelData.kv) THEN Emit(TRUE)
    ELSE LET r == Caught(validateItem(o, modelData.kv[i].v, full, fuel)) IN
         IF i = Len(modelData.kv) THEN r
         ELSE Then(r, validateArrayFrom(o, modelData, i + 1, full, fuel))

\* variant: the scan of the data's keys never finds an undeclared one
FirstUnknownKeyNone(schema, modelData) == ""

FirstUnknownKey(schema, modelData) ==
    LET dk == ObjectKeys(modelData)
        bad == {i \in 1..Len(dk) : ~HasField(schema, dk[i])
                                   /\ ~SeqHas(whitelistedKeys, dk[i])}
    IN IF bad = {} THEN "" ELSE dk[CHOOSE i \in bad : \A j \in bad : i <= j]

validateItem(o, modelData0, full, fuel) ==
    LET schema == heap[o] IN
    IF schema.single
    THEN IF full /\ TypeOf(modelData0) = "undefined"
         THEN Fail("MissingValue", schema.name)
         ELSE validateValueSingle(o, modelData0, full, fuel)
    ELSE IF ~full /\ TypeOf(modelData0) = "undefined"
    THEN Throw("TypeError", NoName)
    ELSE LET keys == IF full THEN [i \in 1..Len(schema.fields) |-> schema.fields[i].key]
                     ELSE ObjectKeys(modelData0)
             modelData == IF full /\ TypeOf(modelData0) = "undefined"
                          THEN VObj(<<>>) ELSE modelData0
         IN
         IF full /\ FirstUnknownKey(schema, modelData) # ""
         THEN Fail("UnknownField", schema.name)
         ELSE IF Len(keys) = 0 THEN Emit(TRUE)
         ELSE validateKeysFrom(o, modelData, keys, 1, full, fuel)

\* variant: the flatMap hands every key to validateValue, absent or not
validateKeysNoAbsenceCheck(o, modelData, keys, i, full, fuel) ==
    LET r == Caught(validateValue(o, keys[i], Prop(modelData, keys[i]), full, fuel))
    IN IF i = Len(keys) THEN r
       ELSE Then(r, validateKeysFrom(o, modelData, keys, i + 1, full, fuel))

\* the flatMap over the keys of validateItem, from position i on
validateKeysFrom(o, modelData, keys, i, full, fuel) ==
    LET schema == heap[o]
        key == keys[i]
        r == IF full /\ ~HasOwn(modelData, key) /\ isKeyRequired(schema, key)
             THEN Fail("RequiredFieldMissing", schema.name)
             ELSE Caught(validateValue(o, key, Prop(modelData, key), full, fuel))
    IN IF i = Len(keys) THEN r
       ELSE Then(r, validateKeysFrom(o, modelData, keys, i + 1, full, fuel))

\* variant: the sole type accepts every value
validateValueSingleAccepts(o, value, full, fuel) == Emit(TRUE)

\* validateValue with key === null
validateValueSingle(o, value, full, fuel) ==
    LET schema == heap[o]
        ty == schema.type
        type == TypeName(ty)
    IN
    IF ty.k = "str" /\ ~TVHas(type) THEN Throw("UnresolvedKey", schema.name)
    ELSE IF ty.k = "undef" THEN Throw("TypeError", NoName)
    ELSE IF TVHas(type)
    THEN IF ApplyTypeValidator(typeValidator[type.base], value, schema.metaData)
         THEN validateMetaData(schema, FALSE, "", value)
         ELSE Fail("TypeMismatch", schema.name)
    ELSE Every(validateModelF(type, value, full, fuel - 1))

\* variant: a key the schema does not declare is let through
UndeclaredKeyAccepted(schema) == Emit(TRUE)

\* the outcome for a key that is not defined in the schema
UndeclaredKey(schema) == Fail("UnknownField", schema.name)

validateValue(o, key, value, full, fuel) ==
    LET schema == heap[o]
        ty == FieldTy(schema, key)
        type == TypeName(ty)
    IN
    IF SeqHas(whitelistedKeys, key) THEN Emit(TRUE)
    ELSE IF ty.k = "undef" THEN UndeclaredKey(schema)
    ELSE IF TypeOf(value) = "undefined"
    THEN IF full /\ isKeyRequired(schema, key)
         THEN Fail("RequiredFieldUndefined", schema.name)
         ELSE Emit(TRUE)
    ELSE IF ty.k = "str" /\ ~TVHas(type) THEN Throw("UnresolvedKey", schema.name)
    ELSE IF TVHas(type)
    THEN LET meta == IF Truthy(schema.metaData) /\ Truthy(Prop(schema.metaData, key))
                     THEN Prop(schema.metaData, key) ELSE VUndef
         IN IF ApplyTypeValidator(typeValidator[type.base], value, meta)
            THEN validateMetaData(schema, TRUE, key, value)
            ELSE Fail("TypeMismatch", schema.name)
    ELSE LET r == Every(validateModelF(type, value, full, fuel - 1)) IN
         IF r.err # "" THEN r
         ELSE validateMetaData(schema, TRUE, key, value)

(***************************************************************************)
(* validateMap.  A path is a sequence of segments [k, v]: k the name of    *)
(* the segment ("" when the segment has none) and v whether it carries an  *)
(* index.  The pointer checkObj is a type entry: TObj(o) for a schema      *)
(* object, or the constructor, string or undefined a field holds.          *)
(***************************************************************************)
\* checkObj.type && checkObj.type.hasOwnProperty(variable): the fields of a
\* map schema; for a single-type schema the own properties of its type
\* value, of which a constructor and a schema object both have 'name'
MapHasOwn(h, checkObj, variable) ==
    /\ checkObj.k = "obj"
    /\ IF h[checkObj.o].single
       THEN h[checkObj.o].type.k \in {"fn", "obj"} /\ variable = "name"
       ELSE HasField(h[checkObj.o], variable)

\* checkObj.type[variable]; the name of a constructor or schema is a string
MapStep(h, checkObj, variable) ==
    IF h[checkObj.o].single THEN TStr("name")
    ELSE FieldTy(h[checkObj.o], variable)

\* checkObj.isArray
MapIsArray(h, checkObj) == checkObj.k = "obj" /\ Truthy(h[checkObj.o].isArray)

RECURSIVE validateMapFrom(_, _, _, _)
validateMapFrom(h, checkObj, path, i) ==
    IF i > Len(path) THEN ""
    ELSE LET variable == path[i].k
             index == path[i].v = VBool(TRUE)
         IN
         IF checkObj.k = "undef" /\ (variable # "" \/ index) THEN "TypeError"
         ELSE IF variable # "" /\ ~MapHasOwn(h, checkObj, variable) THEN "UnknownField"
         ELSE LET next == IF variable # "" THEN MapStep(h, checkObj, variable)
                          ELSE checkObj
              IN IF index /\ next.k = "undef" THEN "TypeError"
                 ELSE IF index /\ ~MapIsArray(h, next) THEN "NotAnArray"
                 ELSE validateMapFrom(h, next, path, i + 1)

validateMap(h, o, path) == validateMapFrom(h, TObj(o), path, 1)

(***************************************************************************)
(* Public registration methods                                             *)
(***************************************************************************)
\* variant: no duplicate check before delegating, duplicates quietly ignored
registerSchemaUnchecked(M, o, nameHint, ignoreDuplicate) ==
    _registerSchema(M, o, nameHint, TRUE)

registerSchema(M, o, nameHint, ignoreDuplicate) ==
    IF RegHas(M.reg, M.heap[o].name) /\ ~ignoreDuplicate
    THEN [M EXCEPT !.err = "DuplicateSchemaName"]
    ELSE _registerSchema(M, o, nameHint, ignoreDuplicate)

registerSchemaFromJson(M, decl, nameHint, ignoreDuplicate) ==
    IF TypeOf(decl) # "string" /\ RegHas(M.reg, DeclName(decl)) /\ ~ignoreDuplicate
    THEN [M EXCEPT !.err = "DuplicateSchemaName"]
    ELSE LET M1 == schemaFromJson(M, decl) IN
         IF M1.err # "" THEN [M EXCEPT !.err = M1.err]
         ELSE _registerSchema(M1, M1.ret, nameHint, ignoreDuplicate)

\* x.name for a cloned type entry x: the name of a constructor, the name of
\* a nested schema object (generated names are shown by their id), and
\* undefined for a string, which has no such property
NameString(n) ==
    IF n = NoName THEN VUndef
    ELSE VObj(<<P("base", VStr(n.base)), P("id", VNum(n.id)), P("sfx", VNum(n.sfx))>>)

DisplayName(h, ty) ==
    CASE ty.k = "fn" -> VStr(ty.s)
      [] ty.k = "obj" -> IF h[ty.o].name.id = 0 /\ h[ty.o].name.sfx = 0
                         THEN (IF h[ty.o].name = NoName THEN VUndef
                               ELSE VStr(h[ty.o].name.base))
                         ELSE NameString(h[ty.o].name)
      [] OTHER -> VUndef

\* schemaToObject(name) of a registered name: the type of the clone.  A
\* string type is left alone; otherwise every own key of the type is
\* replaced by its .name (a constructor has no own enumerable keys; the
\* keys of a nested schema object are its properties name and type, and no
\* schema here declares a field called name)
schemaToObject(h, reg, name) ==
    LET s == h[RegGet(reg, name)] IN
    IF s.single
    THEN CASE s.type.k = "str" -> VStr(s.type.s)
           [] s.type.k = "fn" -> VFn(s.type.s)
           [] s.type.k = "obj" ->
                VObj(<<P("name", VUndef),
                       P("type", IF h[s.type.o].single /\ h[s.type.o].type.k = "fn"
                                 THEN VStr(h[s.type.o].type.s)
                                 ELSE VUndef)>>)
           [] OTHER -> VUndef
    ELSE VObj([i \in 1..Len(s.fields) |->
                  P(s.fields[i].key, DisplayName(h, s.fields[i].ty))])

\* variant: schemaToObject rewrites the registered schema itself
schemaToObjectInPlace(h, reg, name) ==
    LET o == RegGet(reg, name) IN
    IF h[o].single THEN h
    ELSE [h EXCEPT ![o].fields =
             [i \in 1..Len(h[o].fields) |->
                 Fld(h[o].fields[i].key,
                     IF h[o].fields[i].ty.k = "fn" THEN TStr(h[o].fields[i].ty.s)
                     ELSE TUndef)]]

\* the schema graph after schemaToObject(name) of a registered name: the
\* assignments go to the deep clone, the registered objects keep their types
schemaToObjectEffect(h, reg, name) == h

\* schemasToObject(pattern): the snapshots of the registered names the
\* pattern matches, in registry order, from position i on; R = [heap, out]
RECURSIVE schemasToObjectFrom(_, _, _, _)
schemasToObjectFrom(R, reg, matches, i) ==
    IF i > Len(reg) THEN R
    ELSE IF reg[i].name \notin matches THEN schemasToObjectFrom(R, reg, matches, i + 1)
    ELSE schemasToObjectFrom(
             [heap |-> schemaToObjectEffect(R.heap, reg, reg[i].name),
              out |-> Append(R.out, P("", schemaToObject(R.heap, reg, reg[i].name)))],
             reg, matches, i + 1)

getSchema(name) == RegGet(registry, name)

\* depth budget of a validateModel call: every hop either descends into the
\* data or moves to another schema object
MaxDataDepth == 3
Fuel == (MaxDataDepth + 1) * (MaxObjV + 2)
validateModel(schemaName, modelData, full) ==
    validateModelF(schemaName, modelData, full, Fuel)

(***************************************************************************)
(* The record of the most recent call: its arguments and its outcome.      *)
(***************************************************************************)
Call(op) ==
    [op |-> op, o |-> 0, v |-> VUndef, name |-> NoName, hint |-> "",
     ign |-> FALSE, full |-> FALSE, err |-> "", ret |-> 0, names |-> <<>>,
     res |-> Emit(TRUE)]

(***************************************************************************)
(* Inputs                                                                  *)
(***************************************************************************)
NameHints == {"", "H"}

Lit(name, fields, isArray, metaData) ==
    Schema(name, FALSE, TUndef, fields, isArray, VUndef, metaData, TRUE)

Required(key) == VObj(<<P(key, VObj(<<P("required", VBool(TRUE))>>))>>)

\* Schema literals a caller builds for registration.  h is the heap: a field
\* may link the object built just before.
Literals(h) ==
    {Lit(Named("A"), <<Fld("ref", TStr("B"))>>, VUndef, VUndef),
     Lit(Named("A"), <<Fld("ref", TStr("B")), Fld("bad", TUndef)>>, VUndef, VUndef),
     Lit(Named("A"), <<Fld("bad", TUndef), Fld("ref", TStr("B"))>>, VUndef, VUndef),
     Lit(NoName, <<Fld("count", TFn("Number"))>>, VUndef, VUndef)}
    \cup (IF Len(h) = 0 THEN {}
          ELSE {Lit(Named("A"), <<Fld("ref", TObj(Len(h)))>>, VUndef, VUndef),
                Lit(Named("B"), <<Fld("ref", TObj(Len(h)))>>, VUndef, VUndef)})

Declarations ==
    {VObj(<<P("name", VStr("A")), P("type", VObj(<<P("ref", VStr("B"))>>))>>),
     VObj(<<P("type", VStr("A"))>>),
     VObj(<<P("type", VStr("T"))>>)}

\* Schema literals for nested registration: a child without a name, and
\* parents that link the object built just before
LiteralsN(h) ==
    {Lit(Named("A"), <<Fld("count", TFn("Number"))>>, VUndef, VUndef),
     Lit(NoName, <<Fld("count", TFn("Number"))>>, VUndef, VUndef)}
    \cup (IF Len(h) = 0 THEN {}
          ELSE {Lit(Named("A"), <<Fld("ref", TObj(Len(h)))>>, VUndef, VUndef),
                Lit(Named("B"), <<Fld("ref", TObj(Len(h)))>>, VUndef, VUndef)})

\* Schema literals, declarations and data for the validation runs
LiteralsV(h) ==
    {Lit(Named("A"), <<Fld("count", TFn("Number"))>>, a, Required("count")) :
        a \in {VUndef, VBool(TRUE)}}
    \cup {Lit(Named("B"), <<Fld("ref", TStr("A"))>>, VUndef, Required("ref")),
          Lit(Named("A"), <<Fld("ref", TStr("C"))>>, VUndef, VUndef)}
    \cup (IF Len(h) = 0 THEN {}
          ELSE {Lit(Named("B"), <<Fld("ref", TObj(Len(h)))>>, VUndef, Required("ref"))})

DeclarationsV ==
    {VArr(<<P("0", VStr("Any"))>>)}

DataValues ==
    {VUndef, VNum(1), VArr(<<>>),
     VObj(<<>>),
     VObj(<<P("count", VNum(1))>>),
     VObj(<<P("count", VStr("x"))>>),
     VObj(<<P("extra", VNum(1))>>),
     VObj(<<P("count", VNum(1)), P("extra", VNum(1))>>),
     VObj(<<P("count", VStr("x")), P("extra", VNum(1))>>),
     VObj(<<P("ref", VObj(<<P("count", VNum(1))>>))>>),
     VObj(<<P("ref", VObj(<<>>))>>),
     VArr(<<P("0", VObj(<<P("count", VNum(1))>>))>>),
     VArr(<<P("0", VObj(<<P("count", VNum(1))>>)), P("1", VObj(<<>>))>>),
     VArr(<<P("0", VArr(<<>>))>>)}

ValidatedNames == {Named("A"), Named("B")}

\* Schema literals and paths for validateMap: an array shorthand [String],
\* a child {elem: Number} and a parent {random: String, child: <child>},
\* each array-shaped or not
LiteralsM(h) ==
    {Schema(NoName, TRUE, TFn("String"), <<>>, VBool(TRUE), VUndef, VUndef, TRUE)}
    \cup {Lit(NoName, <<Fld("elem", TFn("Number"))>>, a, VUndef) :
             a \in {VUndef, VBool(TRUE)}}
    \cup (IF Len(h) = 0 THEN {}
          ELSE {Lit(NoName, <<Fld("random", TFn("String")), Fld("child", TObj(Len(h)))>>,
                    a, VUndef) : a \in {VUndef, VBool(TRUE)}})

Segments ==
    {P(k, VBool(b)) : k \in {"child", "elem", "name"}, b \in BOOLEAN}
    \cup {P("", VBool(TRUE))}

\* the paths of one and of two segments
Paths == {<<a>> : a \in Segments} \cup {<<a, b>> : a, b \in Segments}

\* Schema literals and data for the runs with custom types, metadata
\* validators and whitelisted keys
MinCount(n) ==
    VObj(<<P("count", VObj(<<P("required", VBool(TRUE)), P("minCount", VNum(n))>>))>>)

LiteralsW(h) ==
    {Lit(Named("A"), <<Fld("count", TFn("Number"))>>, VUndef, MinCount(10)),
     Lit(Named("A"), <<Fld("count", TStr("T"))>>, VUndef, VUndef),
     Schema(Named("B"), TRUE, TStr("T"), <<>>, VUndef, VUndef, VUndef, TRUE)}

DataValuesW ==
    {VStr("1"), VStr("x"),
     VObj(<<>>),
     VObj(<<P("count", VNum(9))>>),
     VObj(<<P("count", VNum(13))>>),
     VObj(<<P("count", VStr("1"))>>),
     VObj(<<P("count", VStr("x"))>>),
     VObj(<<P("extra", VNum(1))>>)}

(***************************************************************************)
(* Specification                                                           *)
(***************************************************************************)
Init ==
    /\ heap = <<>>
    /\ registry = <<>>
    /\ customTypes = <<TYPE_ANY>> \o PRIMITIVES
    /\ typeValidator = [t \in {TYPE_ANY, "String", "Boolean", "Number"} |->
                           CASE t = "String" -> "isString"
                             [] t = "Boolean" -> "isBoolean"
                             [] t = "Number" -> "isNumber"
                             [] OTHER -> "dummy"]
    /\ metaValidator = [k \in {} |-> ""]
    /\ whitelistedKeys = <<>>
    /\ nextId = 1
    /\ last = Call("new")

\* a caller builds a schema object literal
NewSchema(literals, maxObj) ==
    /\ Len(heap) < maxObj
    /\ \E s \in literals :
          /\ heap' = Append(heap, s)
          /\ last' = [Call("newSchema") EXCEPT !.ret = Len(heap) + 1]
    /\ UNCHANGED <<registry, customTypes, typeValidator, metaValidator,
                   whitelistedKeys, nextId>>

RegisterType(predicates) ==
    /\ Len(customTypes) < 4 + MaxTypes
    /\ \E t \in {"T"}, p \in predicates :
          /\ customTypes' = Append(customTypes, t)
          /\ IF t \in DOMAIN typeValidator
             THEN /\ typeValidator' = typeValidator
                  /\ last' = [Call("registerType") EXCEPT !.hint = t, !.err = "DuplicateType"]
             ELSE /\ typeValidator' = [x \in DOMAIN typeValidator \cup {t} |->
                                          IF x = t THEN p ELSE typeValidator[x]]
                  /\ last' = [Call("registerType") EXCEPT !.hint = t]
    /\ UNCHANGED <<heap, registry, metaValidator, whitelistedKeys, nextId>>

Commit(M, call, maxObj) ==
    /\ M.nextId <= MaxGen + 1
    /\ Len(M.heap) <= maxObj
    /\ heap' = M.heap
    /\ registry' = M.reg
    /\ nextId' = M.nextId
    /\ last' = [call EXCEPT !.err = M.err, !.ret = IF M.err = "" THEN M.ret ELSE 0]
    /\ UNCHANGED <<customTypes, typeValidator, metaValidator, whitelistedKeys>>

RegisterSchemaWith(hints, tolerant) ==
    \E o \in 1..Len(heap), hint \in hints, ign \in tolerant :
        Commit(registerSchema(Mach(heap, registry, nextId), o, hint, ign),
               [Call("registerSchema") EXCEPT !.o = o, !.hint = hint, !.ign = ign],
               Len(heap))

RegisterSchema == RegisterSchemaWith(NameHints, BOOLEAN)

RegisterSchemaFromJson(declarations, maxObj) ==
    \E decl \in declarations, hint \in {""}, ign \in BOOLEAN :
        Commit(registerSchemaFromJson(Mach(heap, registry, nextId), decl, hint, ign),
               [Call("registerSchemaFromJson") EXCEPT !.v = decl, !.hint = hint,
                                                      !.ign = ign],
               maxObj)

ResolveAll ==
    LET R == resolveAll(heap, registry) IN
    /\ heap' = R.heap
    /\ last' = [Call("resolveAll") EXCEPT
                   !.err = IF Len(R.unresolvable) > 0 THEN "UnresolvableSchemas" ELSE "",
                   !.names = R.unresolvable]
    /\ UNCHANGED <<registry, customTypes, typeValidator, metaValidator,
                   whitelistedKeys, nextId>>

ResolveSchema ==
    \E o \in 1..Len(heap) :
        /\ heap' = resolveSchema(heap, registry, o)
        /\ last' = [Call("resolveSchema") EXCEPT !.o = o,
                                                 !.ret = IF heap'[o].resolved THEN 1 ELSE 0]
        /\ UNCHANGED <<registry, customTypes, typeValidator, metaValidator,
                       whitelistedKeys, nextId>>

Validate(values) ==
    \E n \in ValidatedNames, d \in values, full \in BOOLEAN :
        /\ last' = [Call("validateModel") EXCEPT !.name = n, !.v = d, !.full = full,
                                                 !.res = validateModel(n, d, full)]
        /\ UNCHANGED <<heap, registry, customTypes, typeValidator, metaValidator,
                       whitelistedKeys, nextId>>

ValidateModel == Validate(DataValues)

\* SchemaManager.validateMap(schema, map)
ValidateMap ==
    \E o \in 1..Len(heap), path \in Paths :
        /\ last' = [Call("validateMap") EXCEPT !.o = o, !.v = VArr(path),
                                               !.err = validateMap(heap, o, path)]
        /\ UNCHANGED <<heap, registry, customTypes, typeValidator, metaValidator,
                       whitelistedKeys, nextId>>

\* schemaToObject(name): throws for a name that is not registered
SchemaToObject ==
    \E n \in ValidatedNames :
        /\ last' = IF RegHas(registry, n)
                   THEN [Call("schemaToObject") EXCEPT
                            !.name = n, !.v = schemaToObject(heap, registry, n)]
                   ELSE [Call("schemaToObject") EXCEPT !.name = n, !.err = "UnknownSchema"]
        /\ heap' = IF RegHas(registry, n) THEN schemaToObjectEffect(heap, registry, n)
                   ELSE heap
        /\ UNCHANGED <<registry, customTypes, typeValidator, metaValidator,
                       whitelistedKeys, nextId>>

\* schemasToObject(pattern), for a pattern that matches every name and one
\* that matches the name A only
SchemasToObject ==
    \E matches \in {RegNames(registry), {Named("A")}} :
        LET R == schemasToObjectFrom([heap |-> heap, out |-> <<>>], registry, matches, 1) IN
        /\ last' = [Call("schemasToObject") EXCEPT
                       !.v = VArr(R.out),
                       !.hint = IF matches = {Named("A")} THEN "A" ELSE ""]
        /\ heap' = R.heap
        /\ UNCHANGED <<registry, customTypes, typeValidator, metaValidator,
                       whitelistedKeys, nextId>>

\* getSchema(name): throws for a name that is not registered
GetSchema ==
    \E n \in ValidatedNames :
        /\ last' = IF hasSchema(n)
                   THEN [Call("getSchema") EXCEPT !.name = n, !.ret = getSchema(n)]
                   ELSE [Call("getSchema") EXCEPT !.name = n, !.err = "UnknownSchema"]
        /\ UNCHANGED <<heap, registry, customTypes, typeValidator, metaValidator,
                       whitelistedKeys, nextId>>

\* hasSchema(name)
HasSchema ==
    \E n \in ValidatedNames :
        /\ last' = [Call("hasSchema") EXCEPT !.name = n,
                                             !.ret = IF hasSchema(n) THEN 1 ELSE 0]
        /\ UNCHANGED <<heap, registry, customTypes, typeValidator, metaValidator,
                       whitelistedKeys, nextId>>

\* validator.setMetaDataValidator('minCount', f)
SetMetaDataValidator ==
    \E f \in {"minThrow", "minFalse"} :
        /\ metaValidator' = [k \in DOMAIN metaValidator \cup {"minCount"} |->
                                 IF k = "minCount" THEN f ELSE metaValidator[k]]
        /\ last' = [Call("setMetaDataValidator") EXCEPT !.hint = "minCount"]
        /\ UNCHANGED <<heap, registry, customTypes, typeValidator,
                       whitelistedKeys, nextId>>

\* validator.whitelistedKeys.push(key); the list is only ever searched with
\* indexOf, so pushing a key it already holds is left out
PushWhitelistedKey ==
    /\ Len(whitelistedKeys) < MaxWhite
    /\ \E k \in {"count", "extra"} :
          /\ ~SeqHas(whitelistedKeys, k)
          /\ whitelistedKeys' = Append(whitelistedKeys, k)
          /\ last' = [Call("whitelist") EXCEPT !.hint = k]
    /\ UNCHANGED <<heap, registry, customTypes, typeValidator, metaValidator, nextId>>

\* registration and resolution
Next ==
    \/ NewSchema(Literals(heap), MaxObj)
    \/ RegisterType({"isOne"})
    \/ RegisterSchema
    \/ RegisterSchemaFromJson(Declarations, MaxObj)
    \/ ResolveAll
    \/ ResolveSchema

Spec == Init /\ [][Next]_vars

\* registration, resolution and validation
NextV ==
    \/ NewSchema(LiteralsV(heap), MaxObjV)
    \/ RegisterSchema
    \/ RegisterSchemaFromJson(DeclarationsV, MaxObjV)
    \/ ResolveAll
    \/ ValidateModel

SpecV == Init /\ [][NextV]_vars

\* nested registration
NextN ==
    \/ NewSchema(LiteralsN(heap), MaxObjN)
    \/ RegisterSchema
    \/ ResolveAll

SpecN == Init /\ [][NextN]_vars

\* validation with custom types, metadata validators and whitelisted keys
NextW ==
    \/ NewSchema(LiteralsW(heap), MaxObjW)
    \/ RegisterType({"isOne", "dummy"})
    \/ SetMetaDataValidator
    \/ PushWhitelistedKey
    \/ RegisterSchema
    \/ Validate(DataValuesW)
    \/ SchemaToObject

SpecW == Init /\ [][NextW]_vars

\* every call that works on the registry, with few inputs each
DataValuesA == {VObj(<<>>), VObj(<<P("count", VNum(1))>>)}

NextA ==
    \/ NewSchema(Literals(heap), MaxObjA)
    \/ RegisterType({"isOne"})
    \/ RegisterSchema
    \/ RegisterSchemaFromJson(Declarations, MaxObjA)
    \/ ResolveAll
    \/ Validate(DataValuesA)

SpecA == Init /\ [][NextA]_vars

\* named declarations of every type shape: a field map, a bare type name and
\* a one-element array wrapper; bare, with isArray false, and with isArray,
\* uniqueKey and metaData
DeclarationsD ==
    {VObj(<<P("name", VStr(n)), P("type", t)>> \o rest) :
        n \in {"A", "B"},
        t \in {VObj(<<P("count", VStr("Number"))>>), VStr("String"),
               VArr(<<P("0", VStr("String"))>>)},
        rest \in {<<>>,
                  <<P("isArray", VBool(FALSE))>>,
                  <<P("isArray", VBool(TRUE)), P("uniqueKey", VStr("count")),
                    P("metaData", MinCount(10))>>}}

NextD == RegisterSchemaFromJson(DeclarationsD, MaxObjD)

SpecD == Init /\ [][NextD]_vars

\* single-type schemas: a sole primitive, a sole custom type and a sole nested
\* schema, array-shaped or not, with and without a flat metadata block; and
\* a map schema that nests the schema made before it
MinFlat(n) == VObj(<<P("minCount", VNum(n))>>)

ShapesS == {<<VUndef, VUndef>>, <<VUndef, MinFlat(10)>>, <<VBool(TRUE), VUndef>>}

LiteralsS(h) ==
    {Schema(Named("A"), TRUE, TFn("Number"), <<>>, x[1], VUndef, x[2], TRUE) :
        x \in ShapesS}
    \cup {Schema(Named("A"), TRUE, TStr(TYPE_ANY), <<>>, VUndef, VUndef, MinFlat(10), TRUE),
          Lit(Named("A"), <<Fld("count", TFn("Number"))>>, VUndef, MinCount(10))}
    \cup (IF Len(h) = 0 THEN {}
          ELSE {Schema(Named("B"), TRUE, TObj(Len(h)), <<>>, x[1], VUndef, x[2], TRUE) :
                   x \in ShapesS}
               \cup {Lit(Named("B"), <<Fld("ref", TObj(Len(h)))>>, VUndef, VUndef)})

DataValuesS ==
    {VUndef, VNum(9), VNum(13),
     VObj(<<P("count", VNum(9))>>),
     VObj(<<P("count", VNum(13))>>),
     VObj(<<P("ref", VObj(<<P("count", VNum(9))>>))>>),
     VObj(<<P("ref", VObj(<<P("count", VNum(13))>>))>>),
     VArr(<<P("0", VNum(13))>>)}

NextS ==
    \/ NewSchema(LiteralsS(heap), MaxObjS)
    \/ SetMetaDataValidator
    \/ RegisterSchemaWith({""}, {FALSE})
    \/ Validate(DataValuesS)

SpecS == Init /\ [][NextS]_vars

\* declarations that name the custom type T, as a field and as the sole
\* type, and a declaration of a schema that is itself named T
DeclarationsT ==
    {VObj(<<P("name", VStr("A")), P("type", VObj(<<P("count", VStr("T"))>>))>>),
     VObj(<<P("name", VStr("B")), P("type", VStr("T"))>>),
     VObj(<<P("name", VStr("T")), P("type", VObj(<<P("count", VStr("Number"))>>))>>)}

DataValuesT ==
    {VStr("1"), VStr("x"),
     VObj(<<P("count", VStr("1"))>>),
     VObj(<<P("count", VStr("x"))>>)}

NextT ==
    \/ RegisterSchemaFromJson(DeclarationsT, MaxObjT)
    \/ RegisterType({"isOne", "dummy"})
    \/ ResolveAll
    \/ Validate(DataValuesT)

SpecT == Init /\ [][NextT]_vars

\* validation and the queries, on registered and resolved schemas
NextQ ==
    \/ NewSchema(LiteralsV(heap), MaxObjQ)
    \/ RegisterSchemaWith({""}, {FALSE})
    \/ ResolveAll
    \/ Validate(DataValues)
    \/ GetSchema
    \/ HasSchema
    \/ SchemaToObject
    \/ SchemasToObject

SpecQ == Init /\ [][NextQ]_vars

\* a schema with two fields, the first under a minimum rule, array-shaped
\* or not; data in which none, one or both of the fields fail, in either
\* key order, and arrays of such items
LiteralsO(h) ==
    {Lit(Named("A"), <<Fld("count", TFn("Number")), Fld("size", TFn("Number"))>>,
         a, MinCount(10)) : a \in {VUndef, VBool(TRUE)}}

ItemsO ==
    {VObj(<<P("count", c), P("size", z)>>) :
        c \in {VNum(9), VNum(13), VStr("x")}, z \in {VNum(1), VStr("x")}}
    \cup {VObj(<<P("size", VStr("x")), P("count", c)>>) : c \in {VNum(9), VStr("x")}}

DataValuesO ==
    ItemsO
    \cup {VArr(<<P("0", VObj(<<P("count", c), P("size", VNum(1))>>)),
                 P("1", VObj(<<P("count", VNum(13)), P("size", z)>>))>>) :
             c \in {VNum(9), VNum(13), VStr("x")}, z \in {VNum(1), VStr("x")}}

NextO ==
    \/ NewSchema(LiteralsO(heap), MaxObjO)
    \/ SetMetaDataValidator
    \/ RegisterSchemaWith({""}, {FALSE})
    \/ Validate(DataValuesO)

SpecO == Init /\ [][NextO]_vars

\* schema objects for cyclic graphs: leaves, and a schema whose field ref is
\* the schema itself (top.type.ref = top)
LiteralsC(h) ==
    {Lit(Named(n), <<Fld("count", TFn("Number"))>>, VUndef, VUndef) : n \in {"A", "B"}}
    \cup {Lit(n, <<Fld("ref", TObj(Len(h) + 1))>>, VUndef, VUndef) :
             n \in {Named("A"), NoName}}

\* two schema objects built to link to each other
NewMutual(maxObj) ==
    /\ Len(heap) + 2 <= maxObj
    /\ heap' = heap \o <<Lit(Named("A"), <<Fld("ref", TObj(Len(heap) + 2))>>, VUndef, VUndef),
                          Lit(Named("B"), <<Fld("ref", TObj(Len(heap) + 1))>>, VUndef, VUndef)>>
    /\ last' = [Call("newSchema") EXCEPT !.ret = Len(heap) + 1]
    /\ UNCHANGED <<registry, customTypes, typeValidator, metaValidator,
                   whitelistedKeys, nextId>>

NextC ==
    \/ NewSchema(LiteralsC(heap), MaxObjC)
    \/ NewMutual(MaxObjC)
    \/ RegisterSchemaWith({""}, BOOLEAN)
    \/ GetSchema

SpecC == Init /\ [][NextC]_vars

\* path checks against schema objects
NextM ==
    \/ NewSchema(LiteralsM(heap), MaxObjM)
    \/ ValidateMap

SpecM == Init /\ [][NextM]_vars

TypeOK ==
    /\ nextId <= MaxGen + 1
    /\ RegOids(registry) \subseteq 1..Len(heap)
    /\ \A o \in 1..Len(heap) : \A i \in 1..Len(heap[o].fields) :
           heap[o].fields[i].ty.k = "obj" => heap[o].fields[i].ty.o \in 1..Len(heap)

(***************************************************************************)
(* Vocabulary of the properties                                            *)
(***************************************************************************)
\* the type entries of a schema object: its fields, or its sole type
Entries(s) == IF s.single THEN {s.type} ELSE {s.fields[i].ty : i \in 1..Len(s.fields)}

\* a name string that is not a custom-type name: a Reference
IsReference(ty) == ty.k = "str" /\ ~SeqHas(customTypes, ty.s)
\* a Reference that matches no registered schema either
IsDangling(reg, ty) == IsReference(ty) /\ ~RegHas(reg, Named(ty.s))

\* the objects reachable from o through nested links, o included
RECURSIVE ReachFrom(_, _)
ReachFrom(h, seen) ==
    LET more == {ty.o : ty \in {e \in UNION {Entries(h[x]) : x \in seen} : e.k = "obj"}} IN
    IF more \subseteq seen THEN seen ELSE ReachFrom(h, seen \cup more)
Reach(h, o) == ReachFrom(h, {o})

\* o is the object the registry holds under o's own name
IsRegistered(h, reg, o) == RegHas(reg, h[o].name) /\ RegGet(reg, h[o].name) = o

(***************************************************************************)
(* C1: registerSchema in the default mode (toleratesDuplicate = false)     *)
(* fails with DuplicateSchemaName whenever the schema carries an explicit  *)
(* name that is already a key of the registry, and such a call leaves the  *)
(* registry (names, objects mapped, the objects themselves) as it was.     *)
(***************************************************************************)
C1_DuplicateRejected ==
    [][(/\ last'.op = "registerSchema"
        /\ ~last'.ign
        /\ last'.o \in 1..Len(heap)
        /\ heap[last'.o].name # NoName
        /\ RegHas(registry, heap[last'.o].name))
       => (/\ last'.err = "DuplicateSchemaName"
           /\ registry' = registry
           /\ heap' = heap)]_vars

\* a second object carrying a registered name has just been rejected
C1_Witness ==
    /\ last.op = "registerSchema"
    /\ ~last.ign
    /\ last.err = "DuplicateSchemaName"
    /\ RegHas(registry, heap[last.o].name)
    /\ RegGet(registry, heap[last.o].name) # last.o

\* the name the registering call collides on, and the collision itself
C2_CollidingName ==
    IF last'.op = "registerSchema" THEN heap[last'.o].name ELSE DeclName(last'.v)

C2_Collision ==
    /\ last'.op \in {"registerSchema", "registerSchemaFromJson"}
    /\ last'.ign
    /\ last'.err = ""
    /\ last'.op = "registerSchema" => last'.o \in 1..Len(heap)
    /\ C2_CollidingName # NoName
    /\ RegHas(registry, C2_CollidingName)
    /\ last'.op = "registerSchema" => RegGet(registry, C2_CollidingName) # last'.o

(***************************************************************************)
(* C2: in duplicate-tolerant mode an object that is not the one already    *)
(* registered under its name is registered under a fresh, suffixed name:   *)
(* the call returns the new object, both objects are in the registry       *)
(* afterwards and the existing entry is kept.                              *)
(***************************************************************************)
C2_CollidingObjectRenamed ==
    [][C2_Collision
       => (/\ last'.ret # RegGet(registry, C2_CollidingName)
           /\ RegGet(registry', C2_CollidingName) = RegGet(registry, C2_CollidingName)
           /\ last'.ret \in RegOids(registry')
           /\ heap'[last'.ret].name \notin RegNames(registry)
           /\ RegGet(registry', heap'[last'.ret].name) = last'.ret)]_vars

(***************************************************************************)
(* C3: after a successful registerSchema(S), S and every schema reachable  *)
(* from S through nested links has a name and that name is registered.     *)
(***************************************************************************)
C3_ReachableRegistered ==
    (last.op = "registerSchema" /\ last.err = "")
    => \A c \in Reach(heap, last.o) :
           heap[c].name # NoName /\ RegHas(registry, heap[c].name)

\* A and B are registered one-field schemas and B.ref is the object A
C4_Cycle(h, reg) ==
    /\ RegHas(reg, Named("A"))
    /\ RegHas(reg, Named("B"))
    /\ LET a == RegGet(reg, Named("A"))
           b == RegGet(reg, Named("B"))
       IN /\ ~h[a].single /\ ~h[b].single
          /\ Len(h[a].fields) = 1
          /\ Len(h[b].fields) = 1
          /\ FieldTy(h[b], "ref") = TObj(a)

(***************************************************************************)
(* C4: with A registered holding field ref = the name string "B" and B     *)
(* registered holding field ref = the object A, a resolveAll leaves A.ref  *)
(* the very object getSchema("B"), B.ref the object getSchema("A"), and    *)
(* both schemas flagged resolved.                                          *)
(***************************************************************************)
C4_CycleResolved ==
    [][(/\ last'.op = "resolveAll"
        /\ C4_Cycle(heap, registry)
        /\ FieldTy(heap[RegGet(registry, Named("A"))], "ref") = TStr("B")
        /\ ~SeqHas(customTypes, "B"))
       => (/\ registry' = registry
           /\ LET a == RegGet(registry', Named("A"))
                  b == RegGet(registry', Named("B"))
              IN /\ FieldTy(heap'[a], "ref") = TObj(b)
                 /\ FieldTy(heap'[b], "ref") = TObj(a)
                 /\ isSchemaResolved(heap'[a])
                 /\ isSchemaResolved(heap'[b]))]_vars

\* the cycle A <-> B closed by a resolveAll: each end is the other's object
C4_Witness ==
    /\ last.op = "resolveAll"
    /\ last.err = ""
    /\ C4_Cycle(heap, registry)
    /\ FieldTy(heap[RegGet(registry, Named("A"))], "ref")
           = TObj(RegGet(registry, Named("B")))
    /\ isSchemaResolved(heap[RegGet(registry, Named("A"))])

HoldsUndefined(h, o) == \E c \in Reach(h, o) : \E e \in Entries(h[c]) : e.k = "undef"

C6_NoReferenceMeansResolved ==
    last.op = "resolveAll"
    => /\ \A o \in RegOids(registry) :
              (\A e \in Entries(heap[o]) : ~IsReference(e)) => isSchemaResolved(heap[o])
       /\ last.err = "" => \A o \in RegOids(registry) : isSchemaResolved(heap[o])

\* the registered names whose schema is flagged unresolved
C7_Unresolved(h, reg) == {n \in RegNames(reg) : ~isSchemaResolved(h[RegGet(reg, n)])}

(***************************************************************************)
(* C7: resolveAll attempts every unresolved registered schema, fails with  *)
(* UnresolvableSchemas exactly when a registered schema is still           *)
(* unresolved afterwards, and the failure names exactly those schemas.     *)
(***************************************************************************)
C7_ResolveAllReportsExactly ==
    [][last'.op = "resolveAll"
       => (/\ last'.err \in {"", "UnresolvableSchemas"}
           /\ last'.err = "UnresolvableSchemas" <=> C7_Unresolved(heap', registry') # {}
           /\ {last'.names[i] : i \in 1..Len(last'.names)} = C7_Unresolved(heap', registry')
           /\ Len(last'.names) = Cardinality(C7_Unresolved(heap', registry'))
           /\ \A o \in RegOids(registry) :
                  isSchemaResolved(heap'[o])
                      <=> \/ isSchemaResolved(heap[o])
                          \/ \A e \in Entries(heap[o]) : EntryIsResolved(registry, e))]_vars

\* a resolveAll that failed naming two schemas
C7_Witness ==
    /\ last.op = "resolveAll"
    /\ last.err = "UnresolvableSchemas"
    /\ Len(last.names) = 2
    /\ C7_Unresolved(heap, registry) = {last.names[1], last.names[2]}

(***************************************************************************)
(* C8: validateModel returns an UnknownSchema failure when the schema name *)
(* is not registered and an UnresolvedSchema failure when the schema is    *)
(* flagged unresolved, whatever the data and in both modes.                *)
(***************************************************************************)
C8_UnknownOrUnresolvedRejected ==
    last.op = "validateModel"
    => /\ ~RegHas(registry, last.name)
              => last.res.err = "UnknownSchema" /\ ~last.res.sync
       /\ (RegHas(registry, last.name) /\ ~isSchemaResolved(heap[getSchema(last.name)]))
              => last.res = Fail("UnresolvedSchema", last.name)

\* validation of d against schema object o taken with isArray = false
C9_NonArrayForm(o, d, full) ==
    IF IsArray(d) THEN Fail("ArrayShapeMismatch", heap[o].name)
    ELSE validateItem(o, d, full, Fuel)

(***************************************************************************)
(* C9: for a schema with isArray = true the empty sequence passes in both  *)
(* modes, data that is not a sequence fails with ArrayShapeMismatch, and a *)
(* non-empty sequence passes exactly when every element passes validation  *)
(* against the non-array form of the schema with the same full flag, the   *)
(* failure reported being that of a failing element; a schema with         *)
(* isArray = false fails with ArrayShapeMismatch on sequence data.         *)
(***************************************************************************)
C9_ArrayValidation ==
    (/\ last.op = "validateModel"
     /\ RegHas(registry, last.name)
     /\ isSchemaResolved(heap[getSchema(last.name)]))
    => LET o == getSchema(last.name)
           d == last.v
           r == last.res
           elem(i) == Caught(C9_NonArrayForm(o, d.kv[i].v, last.full))
       IN /\ (Truthy(heap[o].isArray) /\ d = VArr(<<>>)) => Passes(r)
          /\ (Truthy(heap[o].isArray) /\ ~IsArray(d))
                 => r = Fail("ArrayShapeMismatch", last.name)
          /\ (~Truthy(heap[o].isArray) /\ IsArray(d))
                 => r = Fail("ArrayShapeMismatch", last.name)
          /\ (Truthy(heap[o].isArray) /\ IsArray(d) /\ Len(d.kv) > 0)
                 => /\ Passes(r) <=> \A i \in 1..Len(d.kv) : Passes(elem(i))
                    /\ r.err # "" => \E i \in 1..Len(d.kv) : r = elem(i)

\* key k is declared by schema object o, marked required, and absent from d
C10_Absent(o, d, k) ==
    /\ HasField(heap[o], k)
    /\ isKeyRequired(heap[o], k)
    /\ ~HasOwn(d, k)

\* the validated schema is a registered, resolved, non-array map schema and
\* the data is not a sequence: validateItem is applied to the data itself
C10_ItemCall ==
    /\ last.op = "validateModel"
    /\ RegHas(registry, last.name)
    /\ LET s == heap[getSchema(last.name)]
       IN isSchemaResolved(s) /\ ~s.single /\ ~Truthy(s.isArray)
    /\ ~IsArray(last.v)

(***************************************************************************)
(* C10 as stated: a field marked required and absent from the data makes   *)
(* validateModel fail with RequiredFieldMissing when full = true and is    *)
(* ignored when full = false.                                              *)
(***************************************************************************)
C10_RequiredFieldMissing ==
    (C10_ItemCall /\ \E k \in {"count", "ref"} : C10_Absent(getSchema(last.name), last.v, k))
    => IF last.full THEN last.res.err = "RequiredFieldMissing"
       ELSE last.res.err # "RequiredFieldMissing"

\* what the absence of a required field from item d of schema object o
\* means for the outcome r of a full validation that reaches the item
C10_ItemOutcome(o, d, r) ==
    LET s == heap[o]
        item == IF TypeOf(d) = "undefined" THEN VObj(<<>>) ELSE d
    IN \A i \in 1..Len(s.fields) :
           C10_Absent(o, d, s.fields[i].key)
           => /\ r.err # ""
              /\ (/\ FirstUnknownKey(s, item) = ""
                  /\ \A j \in 1..(i - 1) :
                         /\ ~C10_Absent(o, d, s.fields[j].key)
                         /\ validateValue(o, s.fields[j].key,
                                          Prop(item, s.fields[j].key), TRUE, Fuel).err = "")
                 => r = Fail("RequiredFieldMissing", s.name)

\* a map schema object reached by name n, resolved, validated item by item
C10_MapSchema(n) ==
    /\ RegHas(registry, n)
    /\ isSchemaResolved(heap[RegGet(registry, n)])
    /\ ~heap[RegGet(registry, n)].single

(***************************************************************************)
(* C10 amended: in full mode a declared required field absent from an item *)
(* always makes the validation fail, and the failure is                    *)
(* RequiredFieldMissing of that item's schema whenever the item holds no   *)
(* undeclared key and the fields declared before the absent one raise no   *)
(* failure; this holds for the data of a non-array schema, for the         *)
(* elements of an array schema and for the value of a nested field.  In    *)
(* non-full mode no RequiredFieldMissing is ever reported.                 *)
(***************************************************************************)
C10_AbsentRequiredFails ==
    last.op = "validateModel"
    => /\ ~last.full => last.res.err # "RequiredFieldMissing"
       /\ (last.full /\ C10_MapSchema(last.name))
          => LET o == getSchema(last.name)
                 s == heap[o]
                 d == last.v
                 r == last.res
             IN \* the data of a non-array schema
                /\ (~Truthy(s.isArray) /\ ~IsArray(d)) => C10_ItemOutcome(o, d, r)
                \* the elements of an array schema, up to the first failure
                /\ (Truthy(s.isArray) /\ IsArray(d))
                   => \A i \in 1..Len(d.kv) :
                          (\A j \in 1..(i - 1) :
                               validateItem(o, d.kv[j].v, TRUE, Fuel).err = "")
                          => C10_ItemOutcome(o, d.kv[i].v, r)
                \* the value of the first field, when that field is nested
                /\ (/\ ~Truthy(s.isArray) /\ ~IsArray(d)
                    /\ Len(s.fields) > 0
                    /\ FirstUnknownKey(s, d) = ""
                    /\ ~SeqHas(whitelistedKeys, s.fields[1].key)
                    /\ TypeOf(Prop(d, s.fields[1].key)) # "undefined"
                    /\ ~IsArray(Prop(d, s.fields[1].key))
                    /\ ~TVHas(TypeName(s.fields[1].ty))
                    /\ C10_MapSchema(TypeName(s.fields[1].ty))
                    /\ ~Truthy(heap[RegGet(registry, TypeName(s.fields[1].ty))].isArray))
                   => C10_ItemOutcome(RegGet(registry, TypeName(s.fields[1].ty)),
                                      Prop(d, s.fields[1].key), r)

\* full validation one level down: the nested item {} lacks the field its
\* schema requires, and the failure is that schema's RequiredFieldMissing
C10_Witness ==
    /\ C10_ItemCall
    /\ last.full
    /\ last.name = Named("B")
    /\ last.v = VObj(<<P("ref", VObj(<<>>))>>)
    /\ last.res = Fail("RequiredFieldMissing", Named("A"))

\* the positions, in the data's key order, of the keys of d that schema s
\* neither declares nor finds on the whitelist
C11_Undeclared(s, d) ==
    {i \in 1..Len(ObjectKeys(d)) : /\ ~HasField(s, ObjectKeys(d)[i])
                                   /\ ~SeqHas(whitelistedKeys, ObjectKeys(d)[i])}

(***************************************************************************)
(* C11 as stated: validateModel on a map schema fails with UnknownField    *)
(* whenever the data carries a key that is neither declared nor            *)
(* whitelisted, whatever the other fields hold, in both modes.             *)
(***************************************************************************)
C11_UndeclaredKeyIsUnknownField ==
    (C10_ItemCall /\ C11_Undeclared(heap[getSchema(last.name)], last.v) # {})
    => (last.res.err = "UnknownField" /\ last.res.at = last.name)

(***************************************************************************)
(* C11 amended: data carrying a key that is neither declared nor           *)
(* whitelisted always fails validateModel on a map schema; the failure is  *)
(* UnknownField in full mode, and in non-full mode it is UnknownField      *)
(* unless a key that comes before the first undeclared one in the data     *)
(* fails, in which case that earlier failure is reported.                  *)
(***************************************************************************)
C11_UndeclaredKeyFails ==
    (C10_ItemCall /\ C11_Undeclared(heap[getSchema(last.name)], last.v) # {})
    => LET o == getSchema(last.name)
           d == last.v
           keys == ObjectKeys(d)
           bad == C11_Undeclared(heap[o], d)
           first == CHOOSE i \in bad : \A j \in bad : i <= j
       IN /\ last.res.err # ""
          /\ last.full => (last.res.err = "UnknownField" /\ last.res.at = last.name)
          /\ (/\ ~last.full
              /\ \A j \in 1..(first - 1) :
                     validateValue(o, keys[j], Prop(d, keys[j]), FALSE, Fuel).err = "")
             => (last.res.err = "UnknownField" /\ last.res.at = last.name)

\* full validation of data whose declared field is ill-typed and which
\* carries an undeclared key: the undeclared key is what is reported
C11_Witness ==
    /\ C10_ItemCall
    /\ last.full
    /\ last.v = VObj(<<P("count", VStr("x")), P("extra", VNum(1))>>)
    /\ HasField(heap[getSchema(last.name)], "count")
    /\ last.res.err = "UnknownField"

\* every declared key present in d validates on its own against schema o
C12_PresentFieldsValid(o, d, full) ==
    \A i \in 1..Len(ObjectKeys(d)) :
        HasField(heap[o], ObjectKeys(d)[i])
        => Passes(validateValue(o, ObjectKeys(d)[i], d.kv[i].v, full, Fuel))

(***************************************************************************)
(* C12 as stated: data with a key the schema does not declare fails with   *)
(* UnknownField in full mode, while the same data in non-full mode passes  *)
(* provided every present declared field is individually valid.            *)
(***************************************************************************)
C12_UndeclaredKeyPassesNonFull ==
    (/\ C10_ItemCall
     /\ last.v.t = "obj"
     /\ C11_Undeclared(heap[getSchema(last.name)], last.v) # {})
    => IF last.full THEN last.res.err = "UnknownField"
       ELSE C12_PresentFieldsValid(getSchema(last.name), last.v, FALSE)
                => Passes(last.res)

(***************************************************************************)
(* C12 amended: data with a key the schema does not declare (and the       *)
(* whitelist does not hold) fails with UnknownField in full mode, and the  *)
(* same data fails with UnknownField in non-full mode too when every       *)
(* present declared field is individually valid.                           *)
(***************************************************************************)
C12_UndeclaredKeyFailsBothModes ==
    (/\ C10_ItemCall
     /\ last.v.t = "obj"
     /\ C11_Undeclared(heap[getSchema(last.name)], last.v) # {}
     /\ C12_PresentFieldsValid(getSchema(last.name), last.v, last.full))
    => (last.res.err = "UnknownField" /\ last.res.at = last.name)

\* non-full validation of {count: 1, extra: 1} against a schema declaring
\* count only: rejected for the undeclared key
C12_Witness ==
    /\ C10_ItemCall
    /\ ~last.full
    /\ last.v = VObj(<<P("count", VNum(1)), P("extra", VNum(1))>>)
    /\ HasField(heap[getSchema(last.name)], "count")
    /\ last.res.err = "UnknownField"

(***************************************************************************)
(* C13: a whitelisted key always passes unconditionally: when every key    *)
(* the schema declares and every key the data carries is on the whitelist, *)
(* validateModel passes in both modes; no type check, no UnknownField and  *)
(* no RequiredFieldMissing arises from a whitelisted key.                  *)
(***************************************************************************)
C13_WhitelistedKeyPasses ==
    (/\ C10_ItemCall
     /\ last.v.t = "obj"
     /\ \A i \in 1..Len(heap[getSchema(last.name)].fields) :
            SeqHas(whitelistedKeys, heap[getSchema(last.name)].fields[i].key)
     /\ \A i \in 1..Len(last.v.kv) : SeqHas(whitelistedKeys, last.v.kv[i].k))
    => Passes(last.res)

\* the data is an object whose keys are all declared, not whitelisted, of
\* a type with a registered predicate, and hold a value the predicate
\* accepts; in full mode no required key is absent
C14_BaseChecksPass ==
    /\ C10_ItemCall
    /\ last.v.t = "obj"
    /\ Len(last.v.kv) > 0
    /\ LET o == getSchema(last.name)
           s == heap[o]
       IN /\ \A i \in 1..Len(last.v.kv) :
                 LET k == last.v.kv[i].k
                     v == last.v.kv[i].v
                 IN /\ HasField(s, k)
                    /\ ~SeqHas(whitelistedKeys, k)
                    /\ TypeOf(v) # "undefined"
                    /\ TVHas(TypeName(FieldTy(s, k)))
                    /\ ApplyTypeValidator(typeValidator[TypeName(FieldTy(s, k)).base], v,
                                          Prop(s.metaData, k))
          /\ last.full => \A i \in 1..Len(s.fields) :
                              isKeyRequired(s, s.fields[i].key)
                                  => HasOwn(last.v, s.fields[i].key)

\* every metadata key of the data's keys that has a registered validator
\* (the minimum rule is the one that gets registered) accepts the value
C14_MetaDataHolds ==
    LET s == heap[getSchema(last.name)] IN
    \A i \in 1..Len(last.v.kv) :
        LET keyData == Prop(s.metaData, last.v.kv[i].k)
            value == last.v.kv[i].v
        IN (Truthy(s.metaData) /\ Truthy(keyData))
           => \A j \in 1..Len(ObjectKeys(keyData)) :
                  ObjectKeys(keyData)[j] \in DOMAIN metaValidator
                  => /\ value.t = "num"
                     /\ keyData.kv[j].v.t = "num"
                     /\ value.n >= keyData.kv[j].v.n

(***************************************************************************)
(* C14: once the base type checks of the data's fields pass, every         *)
(* metadata key of a field that has a registered metadata validator is     *)
(* applied to the value and validateModel passes exactly when all of them  *)
(* accept it (count = 9 fails and count = 13 passes a registered           *)
(* minimum-10 rule); a metadata key with no registered validator, such as  *)
(* 'required', never makes the validation fail.                            *)
(***************************************************************************)
C14_MetaDataValidated ==
    C14_BaseChecksPass
    => /\ Passes(last.res) <=> C14_MetaDataHolds
       /\ last.res.err \in {"", "MetaDataInvalid"}
       /\ DOMAIN metaValidator = {} => Passes(last.res)

\* {count: 9} against a schema whose count carries minCount = 10, with a
\* validator registered for minCount: the base check passes, the rule fails
C14_Witness ==
    /\ C14_BaseChecksPass
    /\ "minCount" \in DOMAIN metaValidator
    /\ last.v = VObj(<<P("count", VNum(9))>>)
    /\ HasOwn(Prop(heap[getSchema(last.name)].metaData, "count"), "minCount")
    /\ ~Passes(last.res)

\* the call validates a defined value against a custom type T: as the
\* field count of a map schema, or as the sole type of a single-type schema
C15_CustomValue ==
    /\ last.op = "validateModel"
    /\ RegHas(registry, last.name)
    /\ "T" \in DOMAIN typeValidator
    /\ LET s == heap[getSchema(last.name)]
       IN /\ isSchemaResolved(s)
          /\ ~Truthy(s.isArray)
          /\ ~IsArray(last.v)
          /\ TypeOf(last.v) # "undefined"
          /\ IF s.single THEN s.type = TStr("T")
             ELSE /\ FieldTy(s, "count") = TStr("T")
                  /\ ~SeqHas(whitelistedKeys, "count")
                  /\ last.v.t = "obj"
                  /\ ObjectKeys(last.v) = <<"count">>
                  /\ TypeOf(Prop(last.v, "count")) # "undefined"

\* the value the predicate of T is handed
C15_Value ==
    IF heap[getSchema(last.name)].single THEN last.v ELSE Prop(last.v, "count")

(***************************************************************************)
(* C15: a defined value of kind CustomType(T) passes its base check        *)
(* exactly when the predicate registered for T answers true for it (the    *)
(* registered predicate accepts the string '1' only); predicate false      *)
(* gives TypeMismatch; a type registered with no predicate accepts every   *)
(* value.                                                                  *)
(***************************************************************************)
C15_CustomTypePredicate ==
    C15_CustomValue
    => /\ typeValidator["T"] = "isOne"
          => IF C15_Value = VStr("1")
             THEN Passes(last.res)
             ELSE last.res.err = "TypeMismatch" /\ last.res.at = last.name
       /\ typeValidator["T"] = "dummy" => Passes(last.res)

\* the predicate of T has just rejected the value of a field
C15_Witness ==
    /\ C15_CustomValue
    /\ ~heap[getSchema(last.name)].single
    /\ typeValidator["T"] = "isOne"
    /\ C15_Value = VStr("x")
    /\ last.res.err = "TypeMismatch"

(***************************************************************************)
(* C16: for every registered schema whose fields are only primitive and    *)
(* custom-type fields, schemaToObject yields a snapshot in which every     *)
(* field type is its plain display name: the primitive kind name for a     *)
(* primitive field and the custom-type name for a custom-type field, with  *)
(* no nested object and no undefined type.                                 *)
(***************************************************************************)
C16_SnapshotShowsDisplayNames ==
    (/\ last.op = "schemaToObject"
     /\ last.err = ""
     /\ ~heap[getSchema(last.name)].single
     /\ \A e \in Entries(heap[getSchema(last.name)]) :
            e.k = "fn" \/ (e.k = "str" /\ SeqHas(customTypes, e.s)))
    => LET s == heap[getSchema(last.name)] IN
       /\ ObjectKeys(last.v) = [i \in 1..Len(s.fields) |-> s.fields[i].key]
       /\ \A i \in 1..Len(s.fields) : last.v.kv[i].v = VStr(s.fields[i].ty.s)

\* the walk the path check is meant to do: a named segment must be a field
\* declared by the schema the pointer is at, an indexed segment must land on
\* an array-shaped schema, and an index leaves the pointer where it is
RECURSIVE C17_Walk(_, _, _, _)
C17_Walk(h, at, path, i) ==
    IF i > Len(path) THEN ""
    ELSE LET named == path[i].k # ""
             declared == at.k = "obj" /\ ~h[at.o].single /\ HasField(h[at.o], path[i].k)
             next == IF named THEN FieldTy(h[at.o], path[i].k) ELSE at
         IN IF named /\ ~declared THEN "UnknownField"
            ELSE IF path[i].v = VBool(TRUE)
                    /\ ~(next.k = "obj" /\ Truthy(h[next.o].isArray))
            THEN "NotAnArray"
            ELSE C17_Walk(h, next, path, i + 1)

(***************************************************************************)
(* C17: validateMap(schema, path) passes exactly when, walking the         *)
(* segments of the path from the schema root, every segment name is a      *)
(* field declared at the current level (else UnknownField) and every       *)
(* segment carrying an index is at an array-shaped schema or field (else   *)
(* NotAnArray); an index never moves the schema pointer.                   *)
(***************************************************************************)
C17_PathCheckedByWalk ==
    last.op = "validateMap"
    => last.err = C17_Walk(heap, TObj(last.o), last.v.kv, 1)

(***************************************************************************)
(* C18: a registration call that raises an error aborts entirely: when     *)
(* registerSchema or registerSchemaFromJson fails (duplicate name, a field *)
(* whose type is undefined, invalid array shorthand, invalid type          *)
(* declaration) the registry afterwards holds exactly the entries it held  *)
(* before the call.                                                        *)
(***************************************************************************)
C18_FailedRegistrationLeavesRegistry ==
    [][(/\ last'.op \in {"registerSchema", "registerSchemaFromJson"}
        /\ last'.err # "")
       => registry' = registry]_vars

(***************************************************************************)
(* C19: the registry is append-only: once getSchema(n) returns object o,   *)
(* after any later registerSchema, registerSchemaFromJson, registerType,   *)
(* resolveAll or validateModel call, failing or not, tolerant or not,      *)
(* getSchema(n) still returns the same object o, and the set of            *)
(* registered names never shrinks.                                         *)
(***************************************************************************)
C19_RegistryAppendOnly ==
    [][\A n \in RegNames(registry) :
          /\ RegHas(registry', n)
          /\ RegGet(registry', n) = RegGet(registry, n)]_vars

\* a name is already registered and a further registration has just added
\* another entry next to it
C19_Witness ==
    /\ last.op \in {"registerSchema", "registerSchemaFromJson"}
    /\ last.err = ""
    /\ Len(registry) >= 2
    /\ registry[Len(registry)].oid = last.ret

\* a value the declaration gives is the value the schema has
C20_Carried(declared, copied) == declared # VUndef => copied = declared

(***************************************************************************)
(* C20: registerSchemaFromJson of a declaration that carries an explicit   *)
(* name not yet in the registry registers the resulting schema under       *)
(* exactly that name, for every allowed shape of its type (field map,      *)
(* bare type-name string, one-element array wrapper), and the              *)
(* declaration's isArray, uniqueKey and metaData are carried onto the      *)
(* registered schema.                                                      *)
(***************************************************************************)
C20_RegisteredUnderDeclaredName ==
    [][(/\ last'.op = "registerSchemaFromJson"
        /\ last'.err = ""
        /\ DeclName(last'.v) # NoName
        /\ ~RegHas(registry, DeclName(last'.v)))
       => /\ RegHas(registry', DeclName(last'.v))
          /\ RegGet(registry', DeclName(last'.v)) = last'.ret
          /\ heap'[last'.ret].name = DeclName(last'.v)
          /\ C20_Carried(Prop(last'.v, "isArray"), heap'[last'.ret].isArray)
          /\ C20_Carried(Prop(last'.v, "uniqueKey"), heap'[last'.ret].uniqueKey)
          /\ C20_Carried(Prop(last'.v, "metaData"), heap'[last'.ret].metaData)]_vars

\* validateModel has been called for a registered, resolved single-type schema
C21_Call ==
    /\ last.op = "validateModel"
    /\ RegHas(registry, last.name)
    /\ heap[getSchema(last.name)].single
    /\ isSchemaResolved(heap[getSchema(last.name)])

\* the outcome of validating data against the schema object o itself
C21_Against(o, d, full) ==
    IF ~isSchemaResolved(heap[o]) THEN Fail("UnresolvedSchema", heap[o].name)
    ELSE IF Truthy(heap[o].isArray) /\ IsArray(d) THEN validateArrayFrom(o, d, 1, full, Fuel)
    ELSE IF Truthy(heap[o].isArray) # IsArray(d) THEN Fail("ArrayShapeMismatch", heap[o].name)
    ELSE validateItem(o, d, full, Fuel)

\* a sole Number passes a number and fails a keyed object
C21_SoleNumber ==
    LET s == heap[getSchema(last.name)] IN
    (s.type = TFn("Number") /\ ~Truthy(s.isArray))
    => /\ (last.v.t = "num" /\ s.metaData = VUndef) => Passes(last.res)
       /\ last.v.t = "obj" => last.res.err = "TypeMismatch"

C22_HoldsName(s) ==
    IF s.single THEN s.type = TStr("T") ELSE FieldTy(s, "count") = TStr("T")

\* the schemas declared with T that are registered
C22_Declared == {n \in {Named("A"), Named("B")} : RegHas(registry, n)}

\* before registerType(T): registered unresolved, T held by name, and
\* validateModel fails with UnresolvedSchema
C22_Before ==
    "T" \notin DOMAIN typeValidator
    => /\ \A n \in C22_Declared :
             /\ ~isSchemaResolved(heap[getSchema(n)])
             /\ C22_HoldsName(heap[getSchema(n)])
       /\ (last.op = "validateModel" /\ last.name \in C22_Declared)
          => last.res.err = "UnresolvedSchema"

\* resolveAll after registerType(T): every schema that held T unresolved is
\* resolved and still holds the name
C22_Recovered ==
    (last'.op = "resolveAll" /\ "T" \in DOMAIN typeValidator)
    => \A n \in C22_Declared :
          (~isSchemaResolved(heap[getSchema(n)]) /\ C22_HoldsName(heap[getSchema(n)]))
          => /\ isSchemaResolved(heap'[getSchema(n)])
             /\ C22_HoldsName(heap'[getSchema(n)])

\* once resolved, validation applies the predicate of T to the value
C22_PredicateApplied ==
    (/\ last.op = "validateModel"
     /\ last.name \in C22_Declared
     /\ "T" \in DOMAIN typeValidator
     /\ isSchemaResolved(heap[getSchema(last.name)])
     /\ heap[getSchema(last.name)].single = (last.v.t = "str"))
    => (Passes(last.res)
        <=> ApplyTypeValidator(typeValidator["T"],
                               IF last.v.t = "str" THEN last.v ELSE Prop(last.v, "count"),
                               VUndef))

(***************************************************************************)
(* C22: the order of registerType is load-bearing but recoverable: a       *)
(* declaration naming custom type T that is classified and registered      *)
(* before registerType(T) is registered unresolved, T is held as a         *)
(* Reference and validateModel fails with UnresolvedSchema; after a later  *)
(* registerType(T) followed by resolveAll the schema is resolved, the      *)
(* field still holds the custom-type name T rather than a link, and        *)
(* validation applies T's predicate.                                       *)
(***************************************************************************)
C22_RegisterTypeOrderRecoverable ==
    [][C22_Before' /\ C22_Recovered /\ C22_PredicateApplied']_vars

\* C22 as the code has it: a schema registered under the name T takes the
\* place of the name, at classification and at resolution
C22_RecoverableWithoutSchemaT ==
    [][/\ ~RegHas(registry', Named("T")) => C22_Before'
       /\ ~RegHas(registry, Named("T")) => C22_Recovered
       /\ C22_PredicateApplied']_vars

\* resolveAll has run with T registered, the schema is resolved and holds
\* the name T, and the predicate of T has just rejected a value
C22_Witness ==
    /\ last.op = "validateModel"
    /\ last.name \in C22_Declared
    /\ "T" \in DOMAIN typeValidator
    /\ typeValidator["T"] = "isOne"
    /\ isSchemaResolved(heap[getSchema(last.name)])
    /\ C22_HoldsName(heap[getSchema(last.name)])
    /\ last.v = VObj(<<P("count", VStr("x"))>>)
    /\ last.res.err = "TypeMismatch"

C24_NestedFailureFailsParent ==
    (/\ last.op = "validateModel"
     /\ RegHas(registry, last.name)
     /\ ~heap[getSchema(last.name)].single
     /\ last.v.t = "obj")
    => \A i \in 1..Len(last.v.kv) :
          LET ty == FieldTy(heap[getSchema(last.name)], last.v.kv[i].k) IN
          (/\ ty.k = "obj"
           /\ TypeOf(last.v.kv[i].v) # "undefined"
           /\ ~Passes(validateModelF(heap[ty.o].name, last.v.kv[i].v, last.full, Fuel)))
          => ~Passes(last.res)

\* the bare value passes the check of the sole type of schema s
C25_TypeCheckPasses(s, value, full) ==
    IF s.type.k = "obj"
    THEN Passes(validateModelF(heap[s.type.o].name, value, full, Fuel))
    ELSE /\ TVHas(TypeName(s.type))
         /\ ApplyTypeValidator(typeValidator[TypeName(s.type).base], value, s.metaData)

(***************************************************************************)
(* C25: for every single-type schema, whatever the kind of its sole type   *)
(* (primitive, custom type or nested schema), once the bare value passes   *)
(* the type check the schema-level metadata validators, read from the flat *)
(* metaData block, are run against the whole value, and a failing one      *)
(* makes validateModel fail.                                               *)
(***************************************************************************)
C25_SingleTypeMetaDataApplied ==
    (/\ C21_Call
     /\ ~Truthy(heap[getSchema(last.name)].isArray)
     /\ ~IsArray(last.v)
     /\ TypeOf(last.v) # "undefined"
     /\ heap[getSchema(last.name)].metaData = MinFlat(10)
     /\ "minCount" \in DOMAIN metaValidator
     /\ C25_TypeCheckPasses(heap[getSchema(last.name)], last.v, last.full)
     /\ ~(last.v.t = "num" /\ last.v.n >= 10))
    => ~Passes(last.res)

\* validateModel has been called for a registered, resolved map schema with
\* data of the schema's shape that holds declared fields only
C26_Call ==
    /\ last.op = "validateModel"
    /\ RegHas(registry, last.name)
    /\ ~heap[getSchema(last.name)].single
    /\ isSchemaResolved(heap[getSchema(last.name)])
    /\ Truthy(heap[getSchema(last.name)].isArray) = IsArray(last.v)
    /\ \A i \in 1..Len(last.v.kv) :
          LET item == IF IsArray(last.v) THEN last.v.kv[i].v ELSE last.v IN
          /\ item.t = "obj"
          /\ \A j \in 1..Len(item.kv) : HasField(heap[getSchema(last.name)], item.kv[j].k)

\* the keys of an item in iteration order
C26_Keys(item) ==
    IF last.full
    THEN [i \in 1..Len(heap[getSchema(last.name)].fields) |->
             heap[getSchema(last.name)].fields[i].key]
    ELSE ObjectKeys(item)

\* the outcome of the i-th sibling on its own: a field of the item, or an
\* element of the array
C26_Alone(i) ==
    IF IsArray(last.v)
    THEN Caught(validateItem(getSchema(last.name), last.v.kv[i].v, last.full, Fuel))
    ELSE validateKeysFrom(getSchema(last.name), last.v, <<C26_Keys(last.v)[i]>>, 1,
                          last.full, Fuel)

C26_Siblings ==
    IF IsArray(last.v) THEN 1..Len(last.v.kv) ELSE 1..Len(C26_Keys(last.v))

(***************************************************************************)
(* C26: validation stops at the first failure: when several fields or      *)
(* array elements would fail, validateModel reports the failure of the     *)
(* first one in iteration order (schema field order in full mode, data key *)
(* order in partial mode, positional order for arrays), prefixed with the  *)
(* name of the schema in which it occurred, and no custom-type predicate   *)
(* or metadata validator is invoked for any later sibling: the outcome is  *)
(* the outcome of the first failing sibling and nothing of a later one.    *)
(***************************************************************************)
C26_StopsAtFirstFailure ==
    C26_Call
    => \A i \in C26_Siblings :
          (/\ ~Passes(C26_Alone(i))
           /\ \A j \in C26_Siblings : j < i => Passes(C26_Alone(j)))
          => /\ last.res = C26_Alone(i)
             /\ last.res.err # "" => last.res.at = last.name

\* o lies on a cycle of nested links
C27_OnCycle(h, o) == \E p \in Reach(h, o) : TObj(o) \in Entries(h[p])

\* the number of registry entries that hold object p
C27_Registrations(reg, p) == Cardinality({i \in 1..Len(reg) : reg[i].oid = p})

(***************************************************************************)
(* C27: registerSchema terminates on cyclic schema graphs (a schema whose  *)
(* field links directly to itself, or two schemas linking to each other)   *)
(* and registers each schema object exactly once, so that afterwards       *)
(* getSchema(name).field is the same object as getSchema(name) for a       *)
(* self-reference.                                                         *)
(***************************************************************************)
C27_CyclicGraphRegisteredOnce ==
    [][(/\ last'.op = "registerSchema"
        /\ last'.err = ""
        /\ C27_OnCycle(heap, last'.o))
       => \A p \in Reach(heap', last'.o) :
             /\ C27_Registrations(registry', p) = 1
             /\ IsRegistered(heap', registry', p)
             /\ TObj(p) \in Entries(heap'[p])
                => FieldTy(heap'[RegGet(registry', heap'[p].name)], "ref")
                   = TObj(RegGet(registry', heap'[p].name))]_vars

\* a name made by the generator alone, with or without a suffix
C28_Generated(n) == n.base = "" /\ n.id > 0

(***************************************************************************)
(* C28: registering a schema that has no name never fails with             *)
(* DuplicateSchemaName and always stores it under a newly generated name   *)
(* that was not a key of the registry before the call, whether or not a    *)
(* nameHint is given, whatever toleratesDuplicate is, and even when the    *)
(* same nameHint was already used by an earlier registration; the hint     *)
(* only suffixes the generated name.                                       *)
(***************************************************************************)
C28_UnnamedGetsFreshName ==
    [][(/\ last'.op = "registerSchema"
        /\ heap[last'.o].name = NoName)
       => /\ last'.err # "DuplicateSchemaName"
          /\ IsRegistered(heap', registry', last'.o)
          /\ heap'[last'.o].name \notin RegNames(registry)
          /\ C28_Generated(heap'[last'.o].name)]_vars

(***************************************************************************)
(* C29: in every reachable state, every Nested link held by a registered   *)
(* schema targets the object that the registry holds under that child's    *)
(* name (getSchema(child.name) is the linked object), also when a child's  *)
(* explicit name collided with an already registered, different schema     *)
(* during duplicate-tolerant child registration.                           *)
(***************************************************************************)
C29_LinksTargetRegistered ==
    \A i \in 1..Len(registry) : \A c \in 1..Len(heap) :
        TObj(c) \in Entries(heap[registry[i].oid])
            => IsRegistered(heap, registry, c)

\* the registered schemas flagged resolved in a state
C30_Resolved(h, reg) == {o \in 1..Len(h) : IsRegistered(h, reg, o) /\ isSchemaResolved(h[o])}

\* the Nested links of a state: <<object, position, target>>, position 0 for
\* a sole type
C30_Links(h) ==
    {<<o, 0, h[o].type.o>> : o \in {p \in 1..Len(h) : h[p].single /\ h[p].type.k = "obj"}}
    \cup UNION {{<<o, i, h[o].fields[i].ty.o>> :
                    i \in {j \in 1..Len(h[o].fields) : h[o].fields[j].ty.k = "obj"}} :
                o \in {p \in 1..Len(h) : ~h[p].single}}

(***************************************************************************)
(* C30: resolution is monotonic: once a registered schema is flagged       *)
(* resolved it stays resolved after any later registerSchema,              *)
(* registerSchemaFromJson, registerType, resolveSchema or resolveAll call, *)
(* failing ones included, and a field once rewritten to a Nested link is   *)
(* never turned back into a Reference.                                     *)
(***************************************************************************)
C30_ResolutionMonotonic ==
    [][/\ C30_Resolved(heap, registry) \subseteq C30_Resolved(heap', registry')
       /\ C30_Links(heap) \subseteq C30_Links(heap')]_vars

\* a registered schema resolved by the resolver (its link points at an object
\* built after it, which no literal does) has just been through a failing
\* registration
C30_Witness ==
    /\ last.op \in {"registerSchema", "registerSchemaFromJson"}
    /\ last.err # ""
    /\ \E l \in C30_Links(heap) :
          /\ l[3] > l[1]
          /\ l[1] \in C30_Resolved(heap, registry)

====
